---- MODULE Spec2Model ----
(***************************************************************************)
(* A model of simplept3b.cpp, a Monte Carlo path tracer.                   *)
(*                                                                         *)
(* Three layers are modelled, each with its own specification:             *)
(*   Spec      the driver: main(), the OpenMP parallel pixel loop, the     *)
(*             per-thread random engines and the image buffer c;           *)
(*   PathSpec  the radiance estimator along one path, with the values of   *)
(*             the random draws and the float/double conversions;          *)
(*   IsectSpec the ray-sphere and ray-scene intersection routines.         *)
(***************************************************************************)
EXTENDS Integers, Sequences, FiniteSets, TLC

(***************************************************************************)
(* Bounds of the model.                                                    *)
(***************************************************************************)
\* the largest processor count omp_get_num_procs() returns in the model
MaxProcs == 2
\* image width and height (480 and 360 in the source, scaled down)
w == 2
h == 2
\* the largest digit of argv[1]
MaxDigit == 4
\* the estimator layer counts depth exactly below MaxDepth; the value MaxDepth
\* stands for "MaxDepth or more"
MaxDepth == 7
\* the number of executions of the program that are compared
MaxRuns == 2
\* a double of the model has DblBits fraction bits, a float FltBits significant bits
DblBits == 5
FltBits == 3

(***************************************************************************)
(* Program constants.                                                      *)
(***************************************************************************)
\* the sub-pixel grid is 2 x 2 (the bounds of the sy and sx loops)
SubPix == 2
\* the divisor of the sample count: samps = atoi(argv[1]) / 4
SampDiv == 4
\* int rrDepth = 5
rrDepth == 5
\* std::seed_seq seq{ 1234 }
MasterSeed == 1234
\* sizeof(spheres) / sizeof(Sphere)
NumSpheres == 8
\* const Sphere &light = spheres[7]
LightIndex == 7

VARIABLES
  mainPc,     \* where main() is: "start", "parallel", "write", "exit"
  samps,      \* int samps
  nworkers,   \* int nworkers
  engines,    \* rng.engines: per index, the seed and the threads that advanced it
  rngFault,   \* TRUE once rng() indexed engines out of range
  team,       \* the thread numbers of the team executing the parallel loop
  unassigned, \* the iterations y of the parallel loop not yet handed to a thread
  rowTakers,  \* per row y, the threads the row was handed to
  wk,         \* per thread: its position in the loop nest and in the recursion
  c,          \* the image buffer: per cell, the number of additions and the writers
  src,        \* per cell, the seeds of the engines whose draws went into it
  written,    \* TRUE once image.ppm has been written
  run,        \* the number of the current execution of the program
  prev,       \* what the previous execution left: nworkers, team and src
  depthCap,   \* the driver counts depth exactly below depthCap (1: not counted)
  path,       \* PathSpec: the state of one call tree of receivedRadiance
  isect       \* IsectSpec: a ray and the results of intersecting it

vars == <<mainPc, samps, nworkers, engines, rngFault, team,
          unassigned, rowTakers, wk, c, src, written, run, prev, depthCap,
          path, isect>>

driverVars == <<mainPc, samps, nworkers, engines, rngFault, team,
                unassigned, rowTakers, wk, c, src, written, run, prev, depthCap>>

(***************************************************************************)
(* Arithmetic of the source language.                                      *)
(***************************************************************************)
\* int / int truncates toward zero
IntDiv(a, b) == IF a >= 0 THEN a \div b ELSE -((-a) \div b)

DigitChars == <<"0", "1", "2", "3", "4", "5", "6", "7", "8", "9">>
IsDigit(ch) == \E i \in 1..10 : DigitChars[i] = ch
DigitVal(ch) == (CHOOSE i \in 1..10 : DigitChars[i] = ch) - 1

RECURSIVE AtoiDigits(_, _)
AtoiDigits(str, acc) ==
  IF str = <<>> \/ ~IsDigit(Head(str)) THEN acc
  ELSE AtoiDigits(Tail(str), acc * 10 + DigitVal(Head(str)))

\* atoi: an optional sign, then the leading decimal digits; 0 when there are none
atoi(str) ==
  IF str # <<>> /\ Head(str) = "-" THEN -AtoiDigits(Tail(str), 0)
  ELSE IF str # <<>> /\ Head(str) = "+" THEN AtoiDigits(Tail(str), 0)
  ELSE AtoiDigits(str, 0)

\* the values of argv[1] of the model: a digit, a signed digit, or no number
ArgStrings ==
  {<<DigitChars[d + 1]>> : d \in 0..MaxDigit}
    \cup {<<"-", DigitChars[d + 1]>> : d \in 0..MaxDigit}
    \cup {<<"x">>}

\* int samps = argc == 2 ? atoi(argv[1]) / 4 : 1
SampsOf(ac, av) == IF ac = 2 THEN IntDiv(atoi(av), SampDiv) ELSE 1

(***************************************************************************)
(* Floating point.  A double in [0,1] is u / DblDen with u in 0..DblDen; a *)
(* float keeps FltBits significant bits and a conversion rounds to the     *)
(* nearest float, ties to even, as the IEEE default rounding does.         *)
(***************************************************************************)
RECURSIVE Pow2(_)
Pow2(n) == IF n <= 0 THEN 1 ELSE 2 * Pow2(n - 1)

DblDen == Pow2(DblBits)

\* the values std::uniform_real_distribution<double>(0.0, 1.0) returns: [0, 1)
Draws == 0..(DblDen - 1)

\* the largest power of two that is at most u (u >= 1)
RECURSIVE Pow2Floor(_)
Pow2Floor(u) == IF u <= 1 THEN 1 ELSE 2 * Pow2Floor(u \div 2)

\* the distance between neighbouring floats at u
Ulp(u) ==
  LET sp == Pow2Floor(u) \div Pow2(FltBits - 1)
  IN  IF sp >= 1 THEN sp ELSE 1

\* double -> float, as in "float randVal = rng()" and "float p = 0.9"
ToFloat(u) ==
  IF u <= 0 THEN 0
  ELSE LET sp == Ulp(u)
           q  == u \div sp
           r  == u % sp
       IN  IF 2 * r < sp THEN q * sp
           ELSE IF 2 * r > sp THEN (q + 1) * sp
           ELSE IF q % 2 = 0 THEN q * sp ELSE (q + 1) * sp

\* the double nearest to the decimal literal num/den
DblLit(num, den) == (2 * num * DblDen + den) \div (2 * den)

\* float survivalProbability = 0.9
survivalProbability == ToFloat(DblLit(9, 10))

\* indirectRadiance, lines 305-309: the continuation probability, a float
ContinueProb(depth) == IF depth <= rrDepth THEN ToFloat(DblDen) ELSE survivalProbability

\* indirectRadiance, lines 310-311: randVal = rng(); if (randVal < p)
Survives(depth, u) == ToFloat(u) < ContinueProb(depth)

\* the outcomes of the roulette test at each depth, over all draws; every depth
\* above rrDepth behaves as rrDepth + 1 does
RouletteTable == [d \in 1..(rrDepth + 1) |-> {Survives(d, u) : u \in Draws}]

\* the outcomes of the roulette test when depth is known as dd under the cap:
\* a depth at the cap stands for every depth from the cap on
RouletteOutcomes(dd, cap) ==
  IF dd > rrDepth THEN RouletteTable[rrDepth + 1]
  ELSE IF dd < cap THEN RouletteTable[dd]
  ELSE UNION {RouletteTable[d] : d \in dd..(rrDepth + 1)}

(***************************************************************************)
(* The random number generator.                                            *)
(***************************************************************************)
\* seeds[i] of RNG::init: the i-th of the n words seq.generate derives from the
\* master seed; the words of one generate call are taken to be distinct
SeedOf(n, i) == <<MasterSeed, n, i>>

\* RNG::init(n): n engines, engine i seeded with seeds[i]
RngInit(n) == [i \in 0..(n - 1) |-> [seed |-> SeedOf(n, i), users |-> {}]]

\* a variant in which every thread sees thread number 0
ThreadNumZero(t) == 0

\* omp_get_thread_num() of thread t of the team
omp_get_thread_num(t) == t

\* rng() called by thread t: distrb(engines[id]) advances engines[id]
RngIndexOk(eng, t) == omp_get_thread_num(t) \in DOMAIN eng
RngUse(eng, t) ==
  LET id == omp_get_thread_num(t)
  IN  IF id \in DOMAIN eng
      THEN [eng EXCEPT ![id].users = @ \cup {t}]
      ELSE eng

(***************************************************************************)
(* The scene and the BRDFs.                                                *)
(***************************************************************************)
\* spheres[]: whether e is non-zero, and the kind of the BRDF.  Every sphere of
\* the scene has a DiffuseBRDF; only the last one emits.
spheres ==
  [id \in 0..(NumSpheres - 1) |->
     [emits |-> (id = LightIndex), brdf |-> "diffuse"]]

\* std::sqrt on doubles: the double nearest to the square root of u / DblDen
SqrtDbl(u) ==
  LET v == u * DblDen
      r == CHOOSE k \in 0..DblDen : k * k <= v /\ v < (k + 1) * (k + 1)
  IN  IF v - r * r > r THEN r + 1 ELSE r

\* DiffuseBRDF::sample, lines 130-131: float z = sqrt(rng())
SampleZ == [u \in Draws |-> ToFloat(SqrtDbl(u))]

\* the pdf brdf.sample returns for the draw u: i.dot(n) / PI with i.dot(n) = z for
\* the diffuse BRDF (num / DblDen / PI), and 1.0 for the specular one
SamplePdf(kind, u) ==
  IF kind = "diffuse" THEN [num |-> SampleZ[u], overPi |-> TRUE]
  ELSE [num |-> DblDen, overPi |-> FALSE]

(***************************************************************************)
(* The driver: main().                                                     *)
(***************************************************************************)
Cells == 0..(w * h - 1)

\* a variant of the index without the row stride
IndexNoStride(xx, yy) == (h - yy - 1) + xx

\* const int i = (h - y - 1)*w + x
Index(xx, yy) == (h - yy - 1) * w + xx

Idle == [pc |-> "idle", y |-> 0, x |-> 0, sy |-> 0, sx |-> 0, s |-> 0, depth |-> 0]

\* the estimator and the intersection layers at rest
NoPath == [pc |-> "off"]
NoIsect == [pc |-> "off"]

DriverInit ==
  /\ mainPc = "start"
  /\ samps = 0
  /\ nworkers = 0
  /\ engines = <<>>
  /\ rngFault = FALSE
  /\ team = {}
  /\ unassigned = {}
  /\ rowTakers = [yy \in 0..(h - 1) |-> {}]
  /\ wk = <<>>
  /\ c = <<>>
  /\ src = <<>>
  /\ written = FALSE
  /\ run = 1
  /\ prev = <<>>

\* the driver alone, depth not counted
Init == DriverInit /\ depthCap = 1 /\ path = NoPath /\ isect = NoIsect

\* main, lines 378-384: the engines, the sample count and the image buffer
MainInit ==
  /\ mainPc = "start"
  /\ \E n \in 1..MaxProcs :
        /\ nworkers' = n
        /\ engines' = RngInit(n)
  /\ \E ac \in {1, 2} : \E av \in (IF ac = 2 THEN ArgStrings ELSE {<<>>}) :
        samps' = SampsOf(ac, av)
  /\ c' = [i \in Cells |-> [adds |-> 0, by |-> {}]]
  /\ src' = [i \in Cells |-> {}]
  /\ mainPc' = "fork"
  /\ UNCHANGED <<rngFault, team, unassigned, rowTakers, wk, written,
                 run, prev, depthCap, path, isect>>

\* #pragma omp parallel for schedule(dynamic, 1): a team of at most nworkers
\* threads, numbered from 0, shares the iterations y = 0 .. h-1
EnterParallel ==
  /\ mainPc = "fork"
  /\ \E n \in 1..nworkers :
        /\ team' = 0..(n - 1)
        /\ wk' = [t \in 0..(n - 1) |-> Idle]
  /\ unassigned' = 0..(h - 1)
  /\ mainPc' = "parallel"
  /\ UNCHANGED <<samps, nworkers, engines, rngFault, rowTakers, c, src,
                 written, run, prev, depthCap, path, isect>>

\* the loop nest of lines 387-404 after one sub-pixel is finished
Advance(k) ==
  IF k.sx + 1 < SubPix THEN [k EXCEPT !.sx = @ + 1, !.s = 0]
  ELSE IF k.sy + 1 < SubPix THEN [k EXCEPT !.sx = 0, !.sy = @ + 1, !.s = 0]
  ELSE IF k.x + 1 < w THEN [k EXCEPT !.sx = 0, !.sy = 0, !.x = @ + 1, !.s = 0]
  ELSE [k EXCEPT !.pc = "report"]

\* the seed of the engine thread t draws from (none when the index is out of range)
SeedsUsed(eng, t) ==
  IF RngIndexOk(eng, t) THEN {eng[omp_get_thread_num(t)].seed} ELSE {}

\* the next value of depth: the recursive call is made at depth + 1
NextDepth(d, cap) == IF d < cap THEN d + 1 ELSE cap

\* a thread of the team is handed an iteration of the parallel loop
TakeRow(t) ==
  /\ wk[t].pc = "idle"
  /\ \E yy \in unassigned :
        /\ unassigned' = unassigned \ {yy}
        /\ rowTakers' = [rowTakers EXCEPT ![yy] = @ \cup {t}]
        /\ wk' = [wk EXCEPT ![t] = [Idle EXCEPT !.pc = "sloop", !.y = yy]]
  /\ UNCHANGED <<mainPc, samps, nworkers, engines, rngFault, team, c, src,
                 written, run, prev, depthCap, path, isect>>

\* lines 395-399: the two jitter draws and the call receivedRadiance(ray, 1, true),
\* up to its return on a miss or its entry into reflectedRadiance on a hit
CameraSample(t) ==
  /\ wk[t].pc = "sloop"
  /\ wk[t].s < samps
  /\ engines' = RngUse(engines, t)
  /\ rngFault' = (rngFault \/ ~RngIndexOk(engines, t))
  /\ src' = [src EXCEPT ![Index(wk[t].x, wk[t].y)] = @ \cup SeedsUsed(engines, t)]
  /\ \E hit \in BOOLEAN :
        wk' = [wk EXCEPT ![t] =
                 IF hit THEN [@ EXCEPT !.pc = "reflected", !.depth = 1]
                 ELSE [@ EXCEPT !.s = @ + 1]]
  /\ UNCHANGED <<mainPc, samps, nworkers, team, unassigned, rowTakers, c,
                 written, run, prev, depthCap, path, isect>>

\* reflectedRadiance at the current depth: directRadiance (two draws of
\* luminaireSample), then indirectRadiance: the roulette draw and, when the path
\* survives, the draws of brdf.sample and the next hit, entered at depth + 1
Bounce(t) ==
  /\ wk[t].pc = "reflected"
  /\ engines' = RngUse(engines, t)
  /\ rngFault' = (rngFault \/ ~RngIndexOk(engines, t))
  /\ src' = [src EXCEPT ![Index(wk[t].x, wk[t].y)] = @ \cup SeedsUsed(engines, t)]
  /\ \E survives \in RouletteOutcomes(wk[t].depth, depthCap), hit \in BOOLEAN :
        wk' = [wk EXCEPT ![t] =
                 IF survives /\ hit
                 THEN [@ EXCEPT !.depth = NextDepth(@, depthCap)]
                 ELSE [@ EXCEPT !.pc = "sloop", !.depth = 0, !.s = @ + 1]]
  /\ UNCHANGED <<mainPc, samps, nworkers, team, unassigned, rowTakers, c,
                 written, run, prev, depthCap, path, isect>>

\* line 401, once the loop over s is over: c[i] = c[i] + ...; then the next
\* sub-pixel, the next pixel, or the end of the row
Store(t) ==
  /\ wk[t].pc = "sloop"
  /\ wk[t].s >= samps
  /\ c' = [c EXCEPT ![Index(wk[t].x, wk[t].y)] =
                      [adds |-> @.adds + 1, by |-> @.by \cup {t}]]
  /\ wk' = [wk EXCEPT ![t] = Advance(@)]
  /\ UNCHANGED <<mainPc, samps, nworkers, engines, rngFault, team,
                 unassigned, rowTakers, src, written, run, prev, depthCap, path, isect>>

\* lines 405-406: the progress line, printed in the critical section
Report(t) ==
  /\ wk[t].pc = "report"
  /\ wk' = [wk EXCEPT ![t] = Idle]
  /\ UNCHANGED <<mainPc, samps, nworkers, engines, rngFault, team,
                 unassigned, rowTakers, c, src, written, run, prev, depthCap, path, isect>>

\* a variant without the barrier (a nowait loop): main goes on once every
\* iteration has been handed out
BarrierNoWait == unassigned = {}

\* the implicit barrier at the end of the parallel loop: no iteration is left
\* and every thread of the team has finished its last one
BarrierOpen == unassigned = {} /\ \A t \in team : wk[t].pc = "idle"

\* the end of the parallel region and line 408
ExitParallel ==
  /\ mainPc = "parallel"
  /\ BarrierOpen
  /\ mainPc' = "write"
  /\ UNCHANGED <<samps, nworkers, engines, rngFault, team, unassigned,
                 rowTakers, wk, c, src, written, run, prev, depthCap, path, isect>>

\* lines 411-417: image.ppm is written from c
WriteImage ==
  /\ mainPc = "write"
  /\ written' = TRUE
  /\ mainPc' = "exit"
  /\ UNCHANGED <<samps, nworkers, engines, rngFault, team, unassigned,
                 rowTakers, wk, c, src, run, prev, depthCap, path, isect>>

Next ==
  \/ MainInit
  \/ EnterParallel
  \/ \E t \in team : TakeRow(t)
  \/ \E t \in team : CameraSample(t)
  \/ \E t \in team : Bounce(t)
  \/ \E t \in team : Store(t)
  \/ \E t \in team : Report(t)
  \/ ExitParallel
  \/ WriteImage

Spec == Init /\ [][Next]_vars

\* the driver with depth counted exactly up to rrDepth + 1, and the scheduling it
\* runs under: main and every thread of the team keep taking steps, and a path
\* that can end again and again (a failed roulette test, a ray that misses)
\* eventually does
FairInit ==
  DriverInit /\ depthCap = rrDepth + 1 /\ path = NoPath /\ isect = NoIsect

MainStep == MainInit \/ EnterParallel \/ ExitParallel \/ WriteImage

ThreadStep(t) ==
  /\ t \in team
  /\ TakeRow(t) \/ CameraSample(t) \/ Bounce(t) \/ Store(t) \/ Report(t)

PathEnds(t) == t \in team /\ Bounce(t) /\ wk'[t].pc = "sloop"

FairSpec ==
  /\ FairInit
  /\ [][Next]_vars
  /\ WF_vars(MainStep)
  /\ \A t \in 0..(MaxProcs - 1) : WF_vars(ThreadStep(t)) /\ SF_vars(PathEnds(t))

\* the program is run again with the same command line
Restart ==
  /\ mainPc = "exit"
  /\ run < MaxRuns
  /\ prev' = [nworkers |-> nworkers, team |-> team, samps |-> samps, src |-> src]
  /\ run' = run + 1
  /\ mainPc' = "start"
  /\ samps' = 0
  /\ nworkers' = 0
  /\ engines' = <<>>
  /\ rngFault' = FALSE
  /\ team' = {}
  /\ unassigned' = {}
  /\ rowTakers' = [yy \in 0..(h - 1) |-> {}]
  /\ wk' = <<>>
  /\ c' = <<>>
  /\ src' = <<>>
  /\ written' = FALSE
  /\ UNCHANGED <<depthCap, path, isect>>

RerunNext == Next \/ Restart

RerunSpec == Init /\ [][RerunNext]_vars

(***************************************************************************)
(* The estimator: one call receivedRadiance(ray, 1, true) and the calls it *)
(* makes.  Vectors are triples of integers; None marks a value not set.    *)
(***************************************************************************)
None == <<>>

Neg(v) == <<-v[1], -v[2], -v[3]>>

\* the unit directions of the model
Dirs == {<<1, 0, 0>>, <<-1, 0, 0>>, <<0, 0, 1>>, <<0, 0, -1>>}

\* the points of the scene's surfaces a ray of the model can hit
HitPoints == {<<1, 0, 0>>, <<2, 0, 3>>}

\* the function indirectRadiance calls on the next hit (line 326), and the one
\* receivedRadiance calls on the first hit (line 258)
IndirectCalleeRadiance == "radiance"
IndirectCallee == "reflectedRadiance"
CameraCallee == "radiance"

\* the depths at which emission has been added, after callee is entered at depth d:
\* radiance adds s.e (line 268), reflectedRadiance does not
Enter(callee, em, d) == IF callee = "radiance" THEN em \cup {d} ELSE em

\* the estimator's depth after a bounce
DepthAfter(d) == IF d < MaxDepth THEN d + 1 ELSE MaxDepth

PathStart ==
  [pc |-> "call", depth |-> 0, obj |-> -1, r |-> [o |-> None, d |-> None],
   hitDepths |-> {}, emitDepths |-> {}, directDepths |-> {},
   u |-> -1, randVal |-> -1, p |-> -1, ended |-> "",
   sampled |-> FALSE, traced |-> FALSE, recursedAt |-> 0,
   sampleArg |-> None, evalArg |-> None, incDir |-> None,
   pdf |-> -1, div |-> -1]

PathInit == DriverInit /\ depthCap = 1 /\ path = PathStart /\ isect = NoIsect

\* receivedRadiance (lines 232-263) and radiance (266-270): black on a miss; on a
\* hit the ray outgoing(x, o) with o = -r.d, which is the r of the callees, and
\* the call of radiance at depth 1
PathCall ==
  /\ path.pc = "call"
  /\ \/ path' = [path EXCEPT !.pc = "done", !.ended = "miss"]
     \/ \E id \in DOMAIN spheres, hx \in HitPoints, d \in Dirs :
          path' = [path EXCEPT !.pc = "direct", !.depth = 1, !.obj = id,
                               !.r = [o |-> hx, d |-> Neg(d)],
                               !.hitDepths = {1},
                               !.emitDepths = Enter(CameraCallee, {}, 1)]
  /\ UNCHANGED <<driverVars, isect>>

\* reflectedRadiance, line 277, first operand: directRadiance (283-294) samples
\* the light with two draws and tests visibility; it makes no recursive call
DirectRadiance ==
  /\ path.pc = "direct"
  /\ path' = [path EXCEPT !.pc = "roulette",
                          !.directDepths = @ \cup {path.depth},
                          !.sampled = FALSE, !.traced = FALSE, !.recursedAt = 0,
                          !.sampleArg = None, !.evalArg = None, !.div = -1]
  /\ UNCHANGED <<driverVars, isect>>

\* indirectRadiance, lines 298-311 and 328-332: p, the one draw randVal, and the
\* test randVal < p; rad = Vec() when it fails
Roulette ==
  /\ path.pc = "roulette"
  /\ \E u \in Draws :
        LET pp == ContinueProb(path.depth)
            rv == ToFloat(u)
        IN  path' = [path EXCEPT !.u = u, !.randVal = rv, !.p = pp,
                                 !.pc = IF rv < pp THEN "sample" ELSE "done",
                                 !.ended = IF rv < pp THEN "" ELSE "roulette"]
  /\ UNCHANGED <<driverVars, isect>>

\* indirectRadiance, lines 312-313: s.brdf.sample(xN, r.o, incDir, probDF)
BrdfSample ==
  /\ path.pc = "sample"
  /\ \E u1 \in Draws, i \in Dirs :
        path' = [path EXCEPT !.pc = "trace", !.sampled = TRUE,
                             !.u = -1, !.randVal = -1,
                             !.sampleArg = path.r.o,
                             !.incDir = i,
                             !.pdf = SamplePdf(spheres[path.obj].brdf, u1).num]
  /\ UNCHANGED <<driverVars, isect>>

\* indirectRadiance, lines 314-326: the ray xOut(r.o, incDir); black on a miss; on
\* a hit the recursive call at depth + 1, weighted by s.brdf.eval(xN, r.d, incDir)
\* and divided by probDF * p
Trace ==
  /\ path.pc = "trace"
  /\ \/ path' = [path EXCEPT !.pc = "done", !.ended = "bounce-miss",
                              !.traced = TRUE, !.incDir = None, !.pdf = -1]
     \/ \E id \in DOMAIN spheres, hx \in HitPoints :
          path' = [path EXCEPT !.pc = "direct", !.traced = TRUE,
                               !.depth = DepthAfter(@), !.obj = id,
                               !.r = [o |-> hx, d |-> Neg(path.incDir)],
                               !.hitDepths = @ \cup {DepthAfter(path.depth)},
                               !.emitDepths =
                                  Enter(IndirectCallee, @, DepthAfter(path.depth)),
                               !.recursedAt = DepthAfter(path.depth),
                               !.evalArg = path.r.d,
                               !.div = path.pdf * path.p,
                               !.incDir = None, !.pdf = -1]
  /\ UNCHANGED <<driverVars, isect>>

PathNext == PathCall \/ DirectRadiance \/ Roulette \/ BrdfSample \/ Trace

PathSpec == PathInit /\ [][PathNext]_vars


(***************************************************************************)
(* Intersection.  Lengths are integers; the walls are spheres of radius    *)
(* WallRad whose inner faces bound the room, as in the source's scene,     *)
(* scaled down.  std::sqrt is the integer square root.                     *)
(***************************************************************************)
Dot(a, b) == a[1] * b[1] + a[2] * b[2] + a[3] * b[3]
Sub(a, b) == <<a[1] - b[1], a[2] - b[2], a[3] - b[3]>>

\* the radius of the five wall spheres (1e5 in the source, scaled)
WallRad == 1000

\* the centres and radii of spheres[] (lines 195-204), scaled
geom ==
  [id \in 0..(NumSpheres - 1) |->
     CASE id = 0 -> [rad |-> WallRad, p |-> <<WallRad + 1, 4, 8>>]
       [] id = 1 -> [rad |-> WallRad, p |-> <<10 - WallRad, 4, 8>>]
       [] id = 2 -> [rad |-> WallRad, p |-> <<5, 4, WallRad>>]
       [] id = 3 -> [rad |-> WallRad, p |-> <<5, WallRad, 8>>]
       [] id = 4 -> [rad |-> WallRad, p |-> <<5, 8 - WallRad, 8>>]
       [] id = 5 -> [rad |-> 2, p |-> <<3, 2, 5>>]
       [] id = 6 -> [rad |-> 2, p |-> <<7, 2, 8>>]
       [] OTHER  -> [rad |-> 1, p |-> <<5, 7, 8>>]]

\* double eps = 1e-4, as the fraction EpsNum / EpsDen
EpsNum == 1
EpsDen == 10000
GtEps(t) == t * EpsDen > EpsNum

\* intersect's inf = 1e20: larger than every distance of the model
inf == 1000000

\* std::sqrt of a non-negative number, rounded down; det is at most rad * rad
Isqrt(v) == CHOOSE k \in 0..WallRad : k * k <= v /\ v < (k + 1) * (k + 1)

\* Sphere::intersect, lines 97-102: the distance, 0 if no hit
SphereIntersect(sp, r) ==
  LET op  == Sub(sp.p, r.o)
      b   == Dot(op, r.d)
      det == b * b - Dot(op, op) + sp.rad * sp.rad
  IN  IF det < 0 THEN 0
      ELSE LET sq == Isqrt(det)
           IN  IF GtEps(b - sq) THEN b - sq
               ELSE IF GtEps(b + sq) THEN b + sq
               ELSE 0

\* a variant of the loop body without the test of d
ScanStepNoTest(d, acc, i) ==
  IF d < acc.t THEN [t |-> d, id |-> i] ELSE acc

\* the body of intersect's loop, line 223: if ((d = ...) && d < t) { t = d; id = i; }
ScanStep(d, acc, i) ==
  IF d # 0 /\ d < acc.t THEN [t |-> d, id |-> i] ELSE acc

\* intersect's loop, line 223: for (int i = int(n); i--;), from n - 1 down to 0
RECURSIVE Scan(_, _, _)
Scan(ds, acc, i) ==
  IF i = 0 THEN acc
  ELSE Scan(ds, ScanStep(ds[i - 1], acc, i - 1), i - 1)

\* intersect, lines 221-225, given the distances ds of the spheres and the
\* caller's id: the result, t and id
intersect(ds, id0) ==
  LET acc == Scan(ds, [t |-> inf, id |-> id0], NumSpheres)
  IN  [hit |-> acc.t < inf, t |-> acc.t, id |-> acc.id]

\* the rays of the model: origins in and around the room, unit directions
Origins ==
  {<<ox, oy, oz>> : ox \in {2, 5, 8}, oy \in {1, 4, 7}, oz \in {3, 8, 40}}
    \cup {<<5, 4, 3000>>, <<5, 3000, 8>>, <<3000, 4, 8>>}
AxisDirs ==
  {<<1, 0, 0>>, <<-1, 0, 0>>, <<0, 1, 0>>, <<0, -1, 0>>, <<0, 0, 1>>, <<0, 0, -1>>}

IsectInit ==
  /\ DriverInit /\ depthCap = 1 /\ path = NoPath
  /\ \E o \in Origins, d \in AxisDirs :
        isect = [pc |-> "ray", r |-> [o |-> o, d |-> d], ds |-> <<>>,
                 hit |-> FALSE, t |-> 0, id |-> 0]

\* the caller's "int id = 0; intersect(r, t, id)" (lines 233-236)
Intersect ==
  /\ isect.pc = "ray"
  /\ LET ds  == [i \in 0..(NumSpheres - 1) |-> SphereIntersect(geom[i], isect.r)]
         res == intersect(ds, 0)
     IN  isect' = [isect EXCEPT !.pc = "done", !.ds = ds, !.hit = res.hit,
                                !.t = res.t, !.id = res.id]
  /\ UNCHANGED <<driverVars, path>>

IsectNext == Intersect

IsectSpec == IsectInit /\ [][IsectNext]_vars


(***************************************************************************)
(* The claims.                                                             *)
(***************************************************************************)

\* C1: during the parallel loop every call of rng() by a thread uses engines[id]
\* with id the thread's own number, id is a valid index of engines (0 <= id <
\* nworkers), and no two threads of the team have the same id: no engine is
\* read or advanced by two threads.
RngEnginePerThread ==
  /\ ~rngFault
  /\ \A i \in DOMAIN engines :
        /\ Cardinality(engines[i].users) <= 1
        /\ \A t \in engines[i].users : omp_get_thread_num(t) = i
  /\ \A t \in team : omp_get_thread_num(t) \in 0..(nworkers - 1)
  /\ \A t1, t2 \in team :
        t1 # t2 => omp_get_thread_num(t1) # omp_get_thread_num(t2)

\* C1, its case: two threads of the team have both drawn, in the parallel loop
TwoThreadsDrew ==
  /\ mainPc = "parallel"
  /\ \E i, j \in DOMAIN engines :
        i # j /\ engines[i].users # {} /\ engines[j].users # {}

\* the index (h - y - 1) * w + x maps the pixels one-to-one onto the cells
IndexOneToOne ==
  /\ \A x1, x2 \in 0..(w - 1), y1, y2 \in 0..(h - 1) :
        Index(x1, y1) = Index(x2, y2) => x1 = x2 /\ y1 = y2
  /\ {Index(xx, yy) : xx \in 0..(w - 1), yy \in 0..(h - 1)} = Cells

\* C2: every cell of c is written by one thread only: a row is handed to one
\* thread, the index (h - y - 1) * w + x maps the pixels one-to-one onto the
\* cells, and after the loop every cell has been written by exactly one thread.
OneWriterPerCell ==
  /\ \A i \in DOMAIN c : Cardinality(c[i].by) <= 1
  /\ \A yy \in DOMAIN rowTakers : Cardinality(rowTakers[yy]) <= 1
  /\ IndexOneToOne
  /\ mainPc \in {"write", "exit"} =>
        \A i \in Cells : Cardinality(c[i].by) = 1 /\ c[i].adds = SubPix * SubPix

\* C2, its case: the loop is over and two threads have written cells
TwoThreadsWrote ==
  /\ mainPc = "write"
  /\ \E i, j \in Cells : c[i].by # {} /\ c[j].by # {} /\ c[i].by # c[j].by

\* C3: two executions with the same sample count and the same number of workers
\* give every pixel the same random draws: the draws of a pixel come from the same
\* engine in both, however the rows were handed out.
SameDrawsInBothRuns ==
  (/\ run = 2
   /\ mainPc = "exit"
   /\ prev.nworkers = nworkers
   /\ prev.team = team
   /\ prev.samps = samps)
    => \A i \in Cells : src[i] = prev.src[i]

\* C4: samps is at least 1 when the pixel loop starts, whatever the command
\* line, and no cell of c is written from zero samples.
SampsPositiveInLoop ==
  /\ mainPc = "parallel" => samps >= 1
  /\ \A i \in DOMAIN c : c[i].adds > 0 => samps >= 1

\* C5: intersect reports a hit exactly when some sphere's intersect returns a
\* distance above eps; on a hit t is the least of these distances and id is the
\* index of a sphere that attains it.
IntersectIsNearestHit ==
  isect.pc = "done" =>
    LET cand == {i \in DOMAIN isect.ds : GtEps(isect.ds[i])}
    IN  /\ isect.hit <=> cand # {}
        /\ isect.hit =>
              /\ isect.id \in cand
              /\ isect.t = isect.ds[isect.id]
              /\ \A i \in cand : isect.t <= isect.ds[i]

\* C5, its case: a hit with several spheres on the ray at different distances
NearestOfSeveral ==
  /\ isect.pc = "done"
  /\ isect.hit
  /\ \E i \in DOMAIN isect.ds : GtEps(isect.ds[i]) /\ isect.ds[i] > isect.t

\* C6 as stated: emission has been added at every hit of the path, the hits
\* reached by an indirect bounce included.
EmissionAtEveryHit == path.hitDepths \subseteq path.emitDepths

\* C6 as amended: emission is added at the hit of the camera ray (depth 1) and at
\* no hit reached by an indirect bounce.
EmissionAtCameraHitOnly ==
  path.emitDepths = (IF path.hitDepths = {} THEN {} ELSE {1})

\* C6, its case: the path has bounced and has hit the light at depth 2 or more
BounceHitsLight ==
  /\ path.pc = "direct"
  /\ path.depth >= 2
  /\ path.obj = LightIndex
  /\ path.recursedAt = path.depth

\* C7: after the roulette draw, p is 1.0 while depth <= 5 and 0.9 past it; at
\* depth <= 5 no draw of [0,1) ends the path; past depth 5 the path ends exactly
\* when the draw exceeds p; a path ended by roulette has not sampled the BRDF,
\* intersected or recursed.
RouletteAsStated ==
  path.u # -1 =>
    /\ path.p = ContinueProb(path.depth)
    /\ path.depth <= rrDepth => path.ended # "roulette"
    /\ path.depth > rrDepth => (path.ended = "roulette" <=> path.u > path.p)
    /\ path.ended = "roulette" =>
          ~path.sampled /\ ~path.traced /\ path.recursedAt = 0

\* C8: the second argument of brdf.sample is the outgoing direction o = r.d, the
\* direction that is passed to brdf.eval.
SampleGetsOutgoing ==
  /\ path.pc = "trace" => path.sampleArg = path.r.d
  /\ path.evalArg # None => path.sampleArg = path.evalArg

\* C9: the pdf brdf.sample returns is strictly positive for every draw, and the
\* divisor probDF * p of a continuing path is strictly positive.
PdfStrictlyPositive ==
  /\ path.pc = "trace" => path.pdf > 0
  /\ path.div # -1 => path.div > 0

\* depth is 1 when reflectedRadiance is entered from the camera ray and one more
\* after every bounce (up to the cap of the count)
DepthCountsBounces ==
  \A t \in DOMAIN wk :
    (t \in DOMAIN wk' /\ wk'[t].pc = "reflected") =>
      /\ wk[t].pc = "sloop" => wk'[t].depth = 1
      /\ wk[t].pc = "reflected" /\ wk' # wk =>
            wk'[t] = wk[t] \/ wk'[t].depth = NextDepth(wk[t].depth, depthCap)

\* at no depth is the recursive call ruled out
NoDepthLimit ==
  \A t \in DOMAIN wk :
    wk[t].pc = "reflected" => ENABLED (Bounce(t) /\ wk'[t].pc = "reflected")

\* C10: depth is 1 at the camera ray and grows by 1 per bounce, with no maximum;
\* every call of receivedRadiance returns, every row is finished, and image.ppm
\* is written, only after every cell of every row has been computed.
RenderCompletes ==
  /\ [][DepthCountsBounces]_vars
  /\ []NoDepthLimit
  /\ \A t \in 0..(MaxProcs - 1) :
        (t \in DOMAIN wk /\ wk[t].pc = "reflected")
          ~> (t \in DOMAIN wk /\ wk[t].pc = "sloop")
  /\ \A yy \in 0..(h - 1) :
        <>(rowTakers[yy] # {} /\ \A t \in rowTakers[yy] : wk[t].pc = "idle" \/ wk[t].y # yy)
  /\ <>written
  /\ [](written =>
          /\ unassigned = {}
          /\ \A t \in team : wk[t].pc = "idle"
          /\ \A i \in Cells : c[i].adds = SubPix * SubPix)

\* C10, its case: a path past the roulette depth in one thread while another
\* thread is in its row
DeepPathInParallel ==
  /\ mainPc = "parallel"
  /\ \E t1, t2 \in team :
        /\ t1 # t2
        /\ wk[t1].pc = "reflected" /\ wk[t1].depth > rrDepth
        /\ wk[t2].pc # "idle"

====
